---- MODULE Spec2Model ----
(***************************************************************************)
(* Model of the PrepWise learner-profile engine: LearnerProfile            *)
(* (src/models.py), QuizLogger (src/logger.py) and the mastery functions   *)
(* (src/mastery.py).                                                       *)
(*                                                                         *)
(* Numbers.  The program computes with floats.  The model computes with    *)
(* exact rationals <<num, den>> (den > 0).  A value the program has        *)
(* rounded with round(x, d) is kept as the integer x * 10^d: accuracy,     *)
(* engagement and mastery in thousandths, pace in hundredths of a second.  *)
(* response_time is an integer number of milliseconds.  round() has one    *)
(* result except when x is exactly half way between two neighbours; there  *)
(* the float error of the program decides, so the model allows both.       *)
(***************************************************************************)
EXTENDS Integers, Sequences, FiniteSets, TLC

VARIABLES profiles, file, logs, now, ret, completed, updates, threads,
          session_state, finished, other_profiles

vars == <<profiles, file, logs, now, ret, completed, updates, threads,
          session_state, finished, other_profiles>>

\* ---------------------------------------------------------------- bounds
MaxQuestions == 1
MaxUpdates == 2
MaxLog == 2
MaxTime == 1
MaxTopics == 2
MaxTally == 8

\* ---------------------------------------------------------------- inputs
Students == {"s1", "s2"}

Threads == {"t1", "t2"}

\* The answer records of a quiz: answered right, answered wrong, skipped;
\* response_time in milliseconds
AnswerVals ==
  {[correct |-> TRUE,  skipped |-> FALSE, response_time |-> 1234],
   [correct |-> FALSE, skipped |-> FALSE, response_time |-> 4000],
   [correct |-> FALSE, skipped |-> TRUE,  response_time |-> 1234]}

\* quiz_answers: question number -> answer record, for the first n questions
AnswersUpTo(max) == UNION {[1..n -> AnswerVals] : n \in 0..max}

\* the submissions handed to update_profile
AnswerDicts == AnswersUpTo(MaxQuestions)

\* submissions of at most one question
ShortAnswerDicts == AnswersUpTo(1)

\* submissions of one question that was answered, right or wrong
AnsweredDicts == {a \in AnswersUpTo(1) : Len(a) = 1 /\ ~a[1].skipped}

\* the sessions handed to log_attempt: as many answers as the log has room for
LogAnswerDicts == AnswersUpTo(MaxLog)

\* the question bank: question number -> topic
QuestionTopic(q) ==
  CASE q % 5 = 1 -> "fractions"
    [] q % 5 = 2 -> "algebra"
    [] q % 5 = 3 -> "geometry"
    [] q % 5 = 4 -> "fractions"
    [] OTHER     -> "algebra"

\* outcome of the durable write: it succeeds, it fails before the file is
\* touched (makedirs / open raise), or it fails after open(..., 'w') has
\* truncated the file (json.dump raises)
WriteOutcomes == {"ok", "open_fails", "dump_fails"}

\* the topics of the question bank
Topics == {"fractions", "algebra", "geometry"}

\* mastery scores, in thousandths: the ends of the scale, the thresholds of
\* the levels and of the revision step, and scores between them
PathScores == {0, 300, 400, 499, 500, 700, 800, 1000}

\* topic_mastery dicts of up to MaxTopics topics, as the sequence of their
\* items <<topic, score>> in iteration order
TopicMasteryDicts ==
  {tm \in UNION {[1..n -> Topics \X PathScores] : n \in 0..MaxTopics} :
     \A i, j \in 1..Len(tm) : i # j => tm[i][1] # tm[j][1]}

\* topic_difficulty: no entry at all, or the mean difficulty of each topic's
\* questions (as rationals)
TopicDifficulties ==
  {[x \in {} |-> <<0, 1>>],
   [x \in Topics |-> CASE x = "fractions" -> <<1, 1>>
                       [] x = "algebra"   -> <<5, 2>>
                       [] OTHER           -> <<2, 1>>]}

\* daily_time budgets, in minutes
DailyTimes == {15, 45, 60}

\* every score of three decimals between 0 and 1, in thousandths
Scores == 0..1000

\* ---------------------------------------------------------------- dicts
EmptyDict == [x \in {} |-> 0]

\* d.get(k, default)
DictGet(d, k, default) == IF k \in DOMAIN d THEN d[k] ELSE default

\* d[k] = v
DictSet(d, k, v) == [x \in (DOMAIN d) \cup {k} |-> IF x = k THEN v ELSE d[x]]

\* Python truthiness of a dict
Truthy(d) == DOMAIN d # {}

\* ---------------------------------------------------------------- rationals
RECURSIVE GCD(_, _)
GCD(a, b) == IF b = 0 THEN a ELSE GCD(b, a % b)

Norm(x) == LET g == GCD(x[1], x[2]) IN IF g = 0 THEN x ELSE <<x[1] \div g, x[2] \div g>>

RAdd(x, y) == Norm(<<x[1] * y[2] + y[1] * x[2], x[2] * y[2]>>)

RMul(x, y) == Norm(<<x[1] * y[1], x[2] * y[2]>>)

RSub(x, y) == Norm(<<x[1] * y[2] - y[1] * x[2], x[2] * y[2]>>)

RInv(x) == Norm(<<x[2], x[1]>>)

Pow10(d) == IF d = 3 THEN 1000 ELSE IF d = 2 THEN 100 ELSE 1

\* round(x, d) for x >= 0, as the integer x * 10^d: the nearest integer, and
\* either neighbour when x * 10^d is exactly half way
round(x, d) ==
  LET y == Norm(<<x[1] * Pow10(d), x[2]>>)
      q == y[1] \div y[2]
      r == y[1] % y[2]
  IN  IF 2 * r < y[2] THEN {q}
      ELSE IF 2 * r > y[2] THEN {q + 1}
      ELSE {q, q + 1}

\* a stored (rounded) value with d decimals as a rational
Stored(v, d) == Norm(<<v, Pow10(d)>>)

\* ---------------------------------------------------------------- session metrics
RECURSIVE CountIf(_, _, _)
CountIf(a, n, field) ==
  IF n = 0 THEN 0 ELSE CountIf(a, n - 1, field) + (IF a[n][field] THEN 1 ELSE 0)

RECURSIVE SumTimes(_, _)
SumTimes(a, n) == IF n = 0 THEN 0 ELSE SumTimes(a, n - 1) + a[n].response_time

total_questions(a) == Len(a)

correct_answers(a) == CountIf(a, Len(a), "correct")

skipped_questions(a) == CountIf(a, Len(a), "skipped")

\* correct_answers / total_questions
current_accuracy(a) ==
  IF total_questions(a) # 0 THEN Norm(<<correct_answers(a), total_questions(a)>>) ELSE <<0, 1>>

\* sum(response_times) / len(response_times), in seconds
current_pace(a) ==
  IF Len(a) # 0 THEN Norm(<<SumTimes(a, Len(a)), 1000 * Len(a)>>) ELSE <<0, 1>>

\* 1 - skipped_questions / total_questions
current_engagement(a) ==
  IF total_questions(a) # 0
  THEN RSub(<<1, 1>>, <<skipped_questions(a), total_questions(a)>>)
  ELSE <<0, 1>>

\* ---------------------------------------------------------------- profile records
\* what update_profile returns for an empty submission of an unknown student
DefaultReturn == [accuracy |-> 0, pace |-> 0, engagement |-> 0, topic_mastery |-> EmptyDict]

\* the default existing_profile; last_updated None is written -1
DefaultProfile ==
  [accuracy |-> 0, pace |-> 0, engagement |-> 0, topic_mastery |-> EmptyDict,
   quiz_count |-> 0, last_updated |-> -1]

weight_always_blend(quiz_count) == <<7, 10>>

\* weight = 0.7 if quiz_count > 0 else 1.0
weight(quiz_count) == IF quiz_count > 0 THEN <<7, 10>> ELSE <<1, 1>>

blend_undamped(existing, current, w) == RAdd(existing, RMul(current, w))

blend_old_dominant(existing, current, w) ==
  RAdd(RMul(existing, w), RMul(current, RSub(<<1, 1>>, w)))

\* existing * (1 - weight) + current * weight
blend(existing, current, w) ==
  RAdd(RMul(existing, RSub(<<1, 1>>, w)), RMul(current, w))

\* ---------------------------------------------------------------- attempt log
\* one row of data/logs.csv
LogRow(student_id, q, answer_data, session_id) ==
  [student_id |-> student_id, question_id |-> q, topic |-> QuestionTopic(q),
   correct |-> answer_data.correct, skipped |-> answer_data.skipped,
   response_time |-> answer_data.response_time, session_id |-> session_id]

get_student_logs_all_students(rows, student_id) == rows

\* df[df['student_id'] == student_id]
get_student_logs(rows, student_id) ==
  SelectSeq(rows, LAMBDA r : r.student_id = student_id)

RECURSIVE SumRowTimes(_, _)
SumRowTimes(df, n) ==
  IF n = 0 THEN 0 ELSE SumRowTimes(df, n - 1) + df[n].response_time

compute_topic_stats_whole_frame(logs_df) ==
  [topic \in {logs_df[i].topic : i \in 1..Len(logs_df)} |->
     LET total   == Len(logs_df)
         correct == Len(SelectSeq(logs_df, LAMBDA r : r.correct))
         skipped == Len(SelectSeq(logs_df, LAMBDA r : r.skipped))
     IN  [accuracy   |-> Norm(<<correct, total>>),
          engagement |-> RSub(<<1, 1>>, <<skipped, total>>),
          avg_time   |-> Norm(<<SumRowTimes(logs_df, Len(logs_df)), 1000 * total>>)]]

\* logs_df.groupby("topic"): accuracy, engagement and avg_time of each topic
compute_topic_stats(logs_df) ==
  [topic \in {logs_df[i].topic : i \in 1..Len(logs_df)} |->
     LET df      == SelectSeq(logs_df, LAMBDA r : r.topic = topic)
         total   == Len(df)
         correct == Len(SelectSeq(df, LAMBDA r : r.correct))
         skipped == Len(SelectSeq(df, LAMBDA r : r.skipped))
     IN  [accuracy   |-> IF total # 0 THEN Norm(<<correct, total>>) ELSE <<0, 1>>,
          engagement |-> IF total # 0 THEN RSub(<<1, 1>>, <<skipped, total>>) ELSE <<0, 1>>,
          avg_time   |-> Norm(<<SumRowTimes(df, Len(df)), 1000 * total>>)]]

MasteryScore_time_growing(s) ==
  RAdd(RAdd(RMul(<<1, 2>>, s.accuracy),
            RMul(<<3, 10>>, RAdd(<<1, 1>>, s.avg_time))),
       RMul(<<1, 5>>, s.engagement))

\* 0.5 * accuracy + 0.3 * (1 / (1 + avg_time)) + 0.2 * engagement
MasteryScore(s) ==
  RAdd(RAdd(RMul(<<1, 2>>, s.accuracy),
            RMul(<<3, 10>>, RInv(RAdd(<<1, 1>>, s.avg_time)))),
       RMul(<<1, 5>>, s.engagement))

\* the possible results of compute_topic_mastery: topic -> round(score, 3)
compute_topic_mastery(topic_stats) ==
  LET T == DOMAIN topic_stats
      R(t) == round(MasteryScore(topic_stats[t]), 3)
  IN  {m \in [T -> UNION {R(t) : t \in T}] : \A t \in T : m[t] \in R(t)}

\* ---------------------------------------------------------------- learning path
mastery_level_inclusive(score) ==
  IF score <= 400 THEN "Not Mastered"
  ELSE IF score < 700 THEN "Partially Mastered"
  ELSE "Mastered"

\* learning_path.mastery_level; score in thousandths
mastery_level(score) ==
  IF score < 400 THEN "Not Mastered"
  ELSE IF score < 700 THEN "Partially Mastered"
  ELSE "Mastered"

\* mastery.classify_mastery; score in thousandths
classify_mastery(score) ==
  IF score < 400 THEN "Not Mastered"
  ELSE IF score < 700 THEN "Partially Mastered"
  ELSE "Mastered"

suggest_activities(level) ==
  IF level = "Not Mastered" THEN <<"Concept review", "Worked examples", "Easy practice">>
  ELSE IF level = "Partially Mastered" THEN <<"Mixed practice", "Timed questions">>
  ELSE <<"Challenge problems", "Peer explanation">>

GeneralReview_fixed_hour(daily_time) ==
  <<[topic |-> "General Review", time_minutes |-> 60,
     activities |-> <<"Light revision", "Practice questions">>]>>

\* the path returned for an empty topic_mastery (lines 16-21)
GeneralReview(daily_time) ==
  <<[topic |-> "General Review", time_minutes |-> daily_time,
     activities |-> <<"Light revision", "Practice questions">>]>>

\* the place of item x among the already sorted items: after every item whose
\* score is not greater (sorted() is stable)
RECURSIVE InsertByScore(_, _)
InsertByScore(sorted, x) ==
  IF sorted = <<>> THEN <<x>>
  ELSE IF sorted[Len(sorted)][2] <= x[2] THEN Append(sorted, x)
  ELSE Append(InsertByScore(SubSeq(sorted, 1, Len(sorted) - 1), x), sorted[Len(sorted)])

\* the first n items, sorted
RECURSIVE SortedPrefix(_, _)
SortedPrefix(items, n) ==
  IF n = 0 THEN <<>> ELSE InsertByScore(SortedPrefix(items, n - 1), items[n])

sorted_topics_ties_reversed(items) ==
  SortedPrefix([i \in 1..Len(items) |-> items[Len(items) + 1 - i]], Len(items))

\* sorted(topic_mastery.items(), key=lambda x: x[1]) (lines 24-27); items is
\* the sequence of <<topic, score>> in the iteration order of the dict
sorted_topics(items) == SortedPrefix(items, Len(items))

\* sum(inverse_scores) over the first n items (line 30), as a rational
RECURSIVE SumInverse(_, _)
SumInverse(items, n) ==
  IF n = 0 THEN <<0, 1>>
  ELSE RAdd(SumInverse(items, n - 1), Stored(1000 - items[n][2], 3))

total_inverse_no_fallback(items) == SumInverse(items, Len(items))

\* line 31
total_inverse(items) ==
  LET sum == SumInverse(items, Len(items))
  IN  IF sum[1] > 0 THEN sum ELSE <<Len(items), 1>>

path_weight_by_mastery(score, total) == RMul(Stored(score, 3), RInv(total))

\* line 38: (1 - score) / total_inverse, for total_inverse # 0
path_weight(score, total) == RMul(Stored(1000 - score, 3), RInv(total))

allocated_time_no_floor(w, daily_time) == round(RMul(w, <<daily_time, 1>>), 0)

\* line 39: max(10, round(weight * daily_time)); the candidates of round
allocated_time(w, daily_time) ==
  {IF r > 10 THEN r ELSE 10 : r \in round(RMul(w, <<daily_time, 1>>), 0)}

RevisionSteps_up_to_half(topic, score) ==
  IF score <= 500
  THEN <<[type |-> "revision", topic |-> topic, time_minutes |-> 10,
          focus |-> "Concept reinforcement + recall"]>>
  ELSE <<>>

\* lines 52-58: the revision step of a topic, if it gets one
RevisionSteps(topic, score) ==
  IF score < 500
  THEN <<[type |-> "revision", topic |-> topic, time_minutes |-> 10,
          focus |-> "Concept reinforcement + recall"]>>
  ELSE <<>>

\* lines 36-49: the study steps a topic can get
StudySteps(topic, score, total, topic_difficulty, daily_time) ==
  {[type |-> "study", topic |-> topic, mastery_score |-> ms,
    level |-> mastery_level(score),
    difficulty |-> DictGet(topic_difficulty, topic, <<2, 1>>),
    time_minutes |-> t,
    activities |-> suggest_activities(mastery_level(score))] :
     ms \in round(Stored(score, 3), 3),
     t \in allocated_time(path_weight(score, total), daily_time)}

\* the loop of lines 35-58 over the first n sorted topics: the paths it can build
RECURSIVE PathsOver(_, _, _, _, _)
PathsOver(sorted, n, total, topic_difficulty, daily_time) ==
  IF n = 0 THEN {<<>>}
  ELSE {p \o <<st>> \o RevisionSteps(sorted[n][1], sorted[n][2]) :
          p \in PathsOver(sorted, n - 1, total, topic_difficulty, daily_time),
          st \in StudySteps(sorted[n][1], sorted[n][2], total, topic_difficulty, daily_time)}

\* learning_path.generate_learning_path: the results the call can have, each
\* with how it ended; topic_mastery is the sequence of the dict's items
generate_learning_path(topic_mastery, topic_difficulty, daily_time) ==
  IF topic_mastery = <<>>
  THEN {[outcome |-> "return", value |-> GeneralReview(daily_time)]}
  ELSE LET sorted == sorted_topics(topic_mastery)
           total  == total_inverse(sorted)
       IN  IF total[1] = 0
           THEN {[outcome |-> "raise", value |-> <<>>]}
           ELSE {[outcome |-> "return", value |-> p] :
                   p \in PathsOver(sorted, Len(sorted), total, topic_difficulty, daily_time)}

\* ---------------------------------------------------------------- LearnerProfile
AbsentFile == [status |-> "absent", data |-> EmptyDict]

CorruptFile == [status |-> "corrupt", data |-> EmptyDict]

_load_profiles_defaulting(f) ==
  IF f.status = "ok" THEN f.data ELSE [s \in Students |-> DefaultProfile]

\* json.load of data/learner_profiles.json; {} when the file is missing or unreadable
_load_profiles(f) == IF f.status = "ok" THEN f.data ELSE EmptyDict

_save_profiles_unflushed(profs, f, wr) ==
  CASE wr = "ok"         -> [raised |-> FALSE, file |-> f]
    [] wr = "open_fails" -> [raised |-> TRUE, file |-> f]
    [] OTHER             -> [raised |-> TRUE, file |-> CorruptFile]

\* json.dump(self.profiles) into the file: the new file and whether it raised
_save_profiles(profs, f, wr) ==
  CASE wr = "ok"         -> [raised |-> FALSE, file |-> [status |-> "ok", data |-> profs]]
    [] wr = "open_fails" -> [raised |-> TRUE, file |-> f]
    [] OTHER             -> [raised |-> TRUE, file |-> CorruptFile]

\* self.profiles.get(student_id): <<profile>>, or <<>> for None
get_profile(profs, student_id) ==
  IF student_id \in DOMAIN profs THEN <<profs[student_id]>> ELSE <<>>

\* the subset of the updated profile that update_profile hands back
Returned(p) ==
  [accuracy |-> p.accuracy, pace |-> p.pace, engagement |-> p.engagement,
   topic_mastery |-> p.topic_mastery]

UpdatedProfiles_no_increment(existing_profile, quiz_answers, student_logs, t) ==
  LET quiz_count     == existing_profile.quiz_count
      w              == weight(quiz_count)
      new_accuracy   == blend(Stored(existing_profile.accuracy, 3),
                              current_accuracy(quiz_answers), w)
      new_pace       == blend(Stored(existing_profile.pace, 2),
                              current_pace(quiz_answers), w)
      new_engagement == blend(Stored(existing_profile.engagement, 3),
                              current_engagement(quiz_answers), w)
      masteries      == IF Len(student_logs) # 0
                        THEN compute_topic_mastery(compute_topic_stats(student_logs))
                        ELSE {EmptyDict}
  IN  {[accuracy |-> acc, pace |-> pc, engagement |-> eng, topic_mastery |-> tm,
        quiz_count |-> quiz_count, last_updated |-> t] :
         acc \in round(new_accuracy, 3), pc \in round(new_pace, 2),
         eng \in round(new_engagement, 3), tm \in masteries}

\* lines 96-153: the possible updated_profile records
UpdatedProfiles(existing_profile, quiz_answers, student_logs, t) ==
  LET quiz_count     == existing_profile.quiz_count
      w              == weight(quiz_count)
      new_accuracy   == blend(Stored(existing_profile.accuracy, 3),
                              current_accuracy(quiz_answers), w)
      new_pace       == blend(Stored(existing_profile.pace, 2),
                              current_pace(quiz_answers), w)
      new_engagement == blend(Stored(existing_profile.engagement, 3),
                              current_engagement(quiz_answers), w)
      masteries      == IF Len(student_logs) # 0
                        THEN compute_topic_mastery(compute_topic_stats(student_logs))
                        ELSE {EmptyDict}
  IN  {[accuracy |-> acc, pace |-> pc, engagement |-> eng, topic_mastery |-> tm,
        quiz_count |-> quiz_count + 1, last_updated |-> t] :
         acc \in round(new_accuracy, 3), pc \in round(new_pace, 2),
         eng \in round(new_engagement, 3), tm \in masteries}

SaveAndReturn_swallowing(profs, f, student_id, updated_profile, wr) ==
  LET stored == DictSet(profs, student_id, updated_profile)
      saved  == _save_profiles(stored, f, wr)
  IN  [outcome |-> "return", value |-> <<Returned(updated_profile)>>,
       profiles |-> stored, file |-> saved.file]

\* lines 158-166: store in memory, save, return; an exception of the save
\* is not caught and ends the call
SaveAndReturn(profs, f, student_id, updated_profile, wr) ==
  LET stored == DictSet(profs, student_id, updated_profile)
      saved  == _save_profiles(stored, f, wr)
  IN  IF saved.raised
      THEN [outcome |-> "raise", value |-> <<>>, profiles |-> stored, file |-> saved.file]
      ELSE [outcome |-> "return", value |-> <<Returned(updated_profile)>>,
            profiles |-> stored, file |-> saved.file]

update_profile_creating_default(profs, f, rows, t, student_id, quiz_answers, wr) ==
  IF Len(quiz_answers) = 0
  THEN LET stored == IF student_id \in DOMAIN profs THEN profs
                     ELSE DictSet(profs, student_id, DefaultProfile)
       IN  {[outcome |-> "return", value |-> <<stored[student_id]>>,
             profiles |-> stored, file |-> f]}
  ELSE LET existing_profile == DictGet(profs, student_id, DefaultProfile)
           student_logs     == get_student_logs(rows, student_id)
       IN  {SaveAndReturn(profs, f, student_id, up, wr) :
              up \in UpdatedProfiles(existing_profile, quiz_answers, student_logs, t)}

\* the possible results of update_profile(student_id, quiz_answers)
update_profile(profs, f, rows, t, student_id, quiz_answers, wr) ==
  IF Len(quiz_answers) = 0
  THEN LET got == get_profile(profs, student_id)
       IN  {[outcome |-> "return",
             value |-> IF got # <<>> /\ Truthy(got[1]) THEN got ELSE <<DefaultReturn>>,
             profiles |-> profs, file |-> f]}
  ELSE LET existing_profile == DictGet(profs, student_id, DefaultProfile)
           student_logs     == get_student_logs(rows, student_id)
       IN  {SaveAndReturn(profs, f, student_id, up, wr) :
              up \in UpdatedProfiles(existing_profile, quiz_answers, student_logs, t)}

\* ---------------------------------------------------------------- state machine
\* ret is the call that produced the current state: its arguments, how it
\* ended ("return" or "raise") and the value it returned (<<>> for None or
\* no value); repeat says that the call before it was the same completed call
Call(op, student_id, quiz_answers, wr, outcome, value, repeat) ==
  [op |-> op, student_id |-> student_id, quiz_answers |-> quiz_answers, write |-> wr,
   outcome |-> outcome, value |-> value, repeat |-> repeat]

NoCall(op) == Call(op, "s1", <<>>, "ok", "return", <<>>, FALSE)

\* st.session_state as the top of app.py initialises it (lines 24-37);
\* current_student is <<>> for None, answers holds the answer of the k-th
\* question of the quiz at position k
InitialSession ==
  [current_student |-> <<>>, quiz_started |-> FALSE, quiz_completed |-> FALSE,
   current_question |-> 0, answers |-> <<>>]

IdleThread ==
  [pc |-> "idle", student_id |-> "s1", quiz_answers |-> <<>>,
   updated_profile |-> DefaultProfile]

Init ==
  /\ file = AbsentFile
  /\ profiles = _load_profiles(file)
  /\ logs = <<>>
  /\ now = 0
  /\ ret = NoCall("init")
  /\ completed = [s \in Students |-> 0]
  /\ updates = 0
  /\ threads = [t \in Threads |-> IdleThread]
  /\ session_state = InitialSession
  /\ finished = [s \in Students |-> 0]
  /\ other_profiles = _load_profiles(file)

\* one call of update_profile, from entry to return or exception, as it acts
\* on the profile store
UpdateProfileCall(student_id, quiz_answers, wr) ==
  /\ Len(quiz_answers) = 0 => wr = "ok"
  /\ Len(quiz_answers) # 0 => updates < MaxUpdates
  /\ \E res \in update_profile(profiles, file, logs, now, student_id, quiz_answers, wr) :
       /\ profiles' = res.profiles
       /\ file' = res.file
       /\ ret' = Call("update_profile", student_id, quiz_answers, wr, res.outcome, res.value,
                      /\ ret.op = "update_profile"
                      /\ ret.outcome = "return"
                      /\ ret.student_id = student_id
                      /\ ret.quiz_answers = quiz_answers)
       /\ completed' = [completed EXCEPT ![student_id] =
                          IF Len(quiz_answers) # 0 /\ res.outcome = "return"
                          THEN @ + 1 ELSE @]
  /\ updates' = IF Len(quiz_answers) # 0 THEN updates + 1 ELSE updates
  /\ UNCHANGED <<logs, now, threads, other_profiles>>

\* update_profile called on the LearnerProfile directly
UpdateProfile(student_id, quiz_answers, wr) ==
  /\ UpdateProfileCall(student_id, quiz_answers, wr)
  /\ UNCHANGED <<session_state, finished>>

GetProfile_setdefault(student_id) ==
  /\ profiles' = IF student_id \in DOMAIN profiles THEN profiles
                 ELSE DictSet(profiles, student_id, DefaultProfile)
  /\ ret' = Call("get_profile", student_id, <<>>, "ok", "return",
                 get_profile(profiles', student_id), FALSE)
  /\ UNCHANGED <<file, logs, now, completed, updates, threads, session_state, finished, other_profiles>>

GetProfile(student_id) ==
  /\ ret' = Call("get_profile", student_id, <<>>, "ok", "return",
                 get_profile(profiles, student_id), FALSE)
  /\ UNCHANGED <<profiles, file, logs, now, completed, updates, threads, session_state, finished, other_profiles>>

\* QuizLogger.log_attempt on the path where every answered question is in
\* `questions` and the CSV is written: one row per answer, appended to the file
LogAttemptCall(student_id, answers) ==
  /\ Len(logs) + Len(answers) <= MaxLog
  /\ logs' = logs \o [q \in 1..Len(answers) |->
                        LogRow(student_id, q, answers[q], <<student_id, now>>)]
  /\ ret' = Call("log_attempt", student_id, answers, "ok", "return", <<>>, FALSE)
  /\ UNCHANGED <<profiles, file, now, completed, updates, threads, other_profiles>>

\* log_attempt called on the QuizLogger directly
LogAttempt(student_id, answers) ==
  /\ LogAttemptCall(student_id, answers)
  /\ UNCHANGED <<session_state, finished>>

\* the wall clock advances; it is followed from one reading by the program
\* (a last_updated stamp, a session_id) to the next
Tick ==
  /\ now < MaxTime
  /\ \/ \E s \in DOMAIN profiles : profiles[s].last_updated = now
     \/ \E i \in 1..Len(logs) : logs[i].session_id[2] = now
  /\ now' = now + 1
  /\ ret' = NoCall("tick")
  /\ UNCHANGED <<profiles, file, logs, completed, updates, threads, session_state, finished, other_profiles>>

\* LearnerProfile.__init__ of a new process: the store is read from the file
Restart ==
  /\ profiles' = _load_profiles(file)
  /\ ret' = NoCall("init")
  /\ UNCHANGED <<file, logs, now, completed, updates, threads, session_state, finished, other_profiles>>

Next ==
  \/ \E s \in Students, a \in ShortAnswerDicts, wr \in WriteOutcomes : UpdateProfile(s, a, wr)
  \/ \E s \in Students : GetProfile(s)
  \/ Tick
  \/ Restart

\* the profile store and its file: submissions of at most one question, writes
\* that succeed or fail, restarts; the attempt log stays empty
Spec == Init /\ [][Next]_vars

\* the profile figures: submissions of up to MaxQuestions questions, all
\* writes succeeding, one process; the attempt log stays empty
NextQuiz ==
  \/ \E s \in Students, a \in AnswerDicts : UpdateProfile(s, a, "ok")
  \/ \E s \in Students : GetProfile(s)
  \/ Tick

SpecQuiz == Init /\ [][NextQuiz]_vars

\* the profile store together with the attempt log, within one reading of the
\* clock, all writes succeeding and every submission to update_profile having
\* one answered question
NextLog ==
  \/ \E s \in Students, a \in LogAnswerDicts : LogAttempt(s, a)
  \/ \E s \in Students, a \in AnsweredDicts : UpdateProfile(s, a, "ok")

SpecLog == Init /\ [][NextLog]_vars

\* ---------------------------------------------------------------- path generator
\* one call of generate_learning_path
GenerateLearningPath(topic_mastery, topic_difficulty, daily_time) ==
  /\ \E res \in generate_learning_path(topic_mastery, topic_difficulty, daily_time) :
       ret' = [op |-> "generate_learning_path", topic_mastery |-> topic_mastery,
               topic_difficulty |-> topic_difficulty, daily_time |-> daily_time,
               outcome |-> res.outcome, value |-> res.value]
  /\ UNCHANGED <<profiles, file, logs, now, completed, updates, threads, session_state, finished, other_profiles>>

MasteryLevel(score) ==
  /\ ret' = [op |-> "mastery_level", score |-> score, outcome |-> "return",
             value |-> mastery_level(score)]
  /\ UNCHANGED <<profiles, file, logs, now, completed, updates, threads, session_state, finished, other_profiles>>

ClassifyMastery(score) ==
  /\ ret' = [op |-> "classify_mastery", score |-> score, outcome |-> "return",
             value |-> classify_mastery(score)]
  /\ UNCHANGED <<profiles, file, logs, now, completed, updates, threads, session_state, finished, other_profiles>>

\* no call has been made yet
Fresh == ret.op = "init"

NextPath ==
  \/ Fresh /\ \E tm \in TopicMasteryDicts, td \in TopicDifficulties, d \in DailyTimes :
                GenerateLearningPath(tm, td, d)
  \/ Fresh /\ \E score \in Scores : MasteryLevel(score)
  \/ Fresh /\ \E score \in Scores : ClassifyMastery(score)

\* the path generator and the two level functions are pure: every behaviour
\* is one call of one of them, with any input
SpecPath == Init /\ [][NextPath]_vars

\* ---------------------------------------------------------------- concurrent callers
\* Two sessions of the application share one LearnerProfile object and call
\* update_profile on it from their own threads; nothing in update_profile
\* takes a lock, so a thread can be descheduled between its statements.

\* lines 75-153: a thread enters update_profile with a non-empty submission,
\* reads self.profiles.get(student_id) and builds updated_profile from it
ThreadCompute(t, student_id, quiz_answers) ==
  /\ threads[t].pc = "idle"
  /\ Len(quiz_answers) # 0
  /\ updates < MaxUpdates
  /\ \E up \in UpdatedProfiles(DictGet(profiles, student_id, DefaultProfile), quiz_answers,
                               get_student_logs(logs, student_id), now) :
       threads' = [threads EXCEPT ![t] =
                     [pc |-> "computed", student_id |-> student_id,
                      quiz_answers |-> quiz_answers, updated_profile |-> up]]
  /\ updates' = updates + 1
  /\ ret' = NoCall("compute")
  /\ UNCHANGED <<profiles, file, logs, now, completed, session_state, finished, other_profiles>>

\* line 158: self.profiles[student_id] = updated_profile
ThreadStore(t) ==
  /\ threads[t].pc = "computed"
  /\ profiles' = DictSet(profiles, threads[t].student_id, threads[t].updated_profile)
  /\ threads' = [threads EXCEPT ![t].pc = "stored"]
  /\ ret' = NoCall("store")
  /\ UNCHANGED <<file, logs, now, completed, updates, session_state, finished, other_profiles>>

\* lines 159-166: self._save_profiles() succeeds and the call returns
ThreadSaveReturn(t) ==
  /\ threads[t].pc = "stored"
  /\ file' = _save_profiles(profiles, file, "ok").file
  /\ threads' = [threads EXCEPT ![t] = IdleThread]
  /\ completed' = [completed EXCEPT ![threads[t].student_id] = @ + 1]
  /\ ret' = Call("update_profile", threads[t].student_id, threads[t].quiz_answers, "ok",
                 "return", <<Returned(threads[t].updated_profile)>>, FALSE)
  /\ UNCHANGED <<profiles, logs, now, updates, session_state, finished, other_profiles>>

NextConc ==
  \/ \E t \in Threads, s \in Students, a \in AnswerDicts : ThreadCompute(t, s, a)
  \/ \E t \in Threads : ThreadStore(t)
  \/ \E t \in Threads : ThreadSaveReturn(t)

SpecConc == Init /\ [][NextConc]_vars

\* ---------------------------------------------------------------- readers of the store
\* the question bank questions_df: question ids and their difficulty
QuestionIds == {"q1", "q2", "q3", "q4", "q5"}

QuestionDifficulty(q) ==
  CASE q \in {"q1", "q4"} -> 1
    [] q \in {"q2", "q3"} -> 2
    [] OTHER              -> 3

\* the banks handed in as questions_df: an empty frame, or the sample bank
QuestionBanks == {{}, QuestionIds}

\* DataFrame.sample(n=n): n different rows, in any order
Samples(S, n) ==
  {q \in [1..n -> S] : \A i, j \in 1..n : i # j => q[i] # q[j]}

Min(a, b) == IF a < b THEN a ELSE b

\* the recommendations made of questions qs, all of one type
Recs(type, qs) == [i \in 1..Len(qs) |-> [type |-> type, question_id |-> qs[i]]]

\* LearnerProfile.get_weak_topics
get_weak_topics(profs, student_id) ==
  LET profile == get_profile(profs, student_id)
  IN  IF profile = <<>> \/ ~Truthy(profile[1]) THEN <<"fractions", "algebra">>
      ELSE IF profile[1].accuracy < 600 THEN <<"fractions", "basic arithmetic">>
      ELSE IF profile[1].accuracy < 800 THEN <<"algebra", "geometry">>
      ELSE <<"advanced algebra", "calculus">>

\* compute_topic_mastery applied to a DataFrame, as get_learning_plan does:
\* it iterates the columns of the frame and reads s["accuracy"] from the
\* first, which a column does not have; logs_df is <<>> for a frame without
\* columns and <<rows>> for a frame with the columns of the log
compute_topic_mastery_of_frame(logs_df) ==
  IF logs_df = <<>>
  THEN [outcome |-> "return", value |-> <<>>]
  ELSE [outcome |-> "raise", value |-> <<>>]

\* LearnerProfile.get_learning_plan; topic_difficulty is the mean difficulty
\* per topic of questions_df
get_learning_plan(student_id, logs_df, topic_difficulty) ==
  LET mastery == compute_topic_mastery_of_frame(logs_df)
  IN  IF mastery.outcome = "raise" THEN {mastery}
      ELSE generate_learning_path(mastery.value, topic_difficulty, 60)

\* the fill of lines 322-339: questions not yet recommended, as 'additional'
FillUp(recommendations, bank, num_recommendations) ==
  LET used      == {recommendations[i].question_id : i \in 1..Len(recommendations)}
      available == bank \ used
      remaining == num_recommendations - Len(recommendations)
  IN  IF Len(recommendations) < num_recommendations /\ available # {}
      THEN {recommendations \o Recs("additional", qs) :
              qs \in Samples(available, Min(remaining, Cardinality(available)))}
      ELSE {recommendations}

\* the rule-based recommendations of lines 224-319, by accuracy in thousandths
RuleBased(accuracy, bank) ==
  LET upto2  == {q \in bank : QuestionDifficulty(q) <= 2}
      only1  == {q \in bank : QuestionDifficulty(q) = 1}
      only2  == {q \in bank : QuestionDifficulty(q) = 2}
      from3  == {q \in bank : QuestionDifficulty(q) >= 3}
  IN  IF accuracy < 600
      THEN {Recs("remedial", r) \o Recs("practice", pr) :
              r \in Samples(upto2, Min(1, Cardinality(upto2))),
              pr \in Samples(only1, Min(2, Cardinality(only1)))}
      ELSE IF accuracy <= 850
      THEN {Recs("practice", pr) \o Recs("challenge", c) :
              pr \in Samples(only2, Min(2, Cardinality(only2))),
              c \in Samples(from3, Min(1, Cardinality(from3)))}
      ELSE {Recs("challenge", c) : c \in Samples(from3, Min(3, Cardinality(from3)))}

\* ContentRecommender.get_recommendations: the lists it can return; profile
\* is <<p>>, or <<>> for None, on which profile.get fails and the except
\* branch answers with random questions
get_recommendations(student_id, profile, bank, num_recommendations) ==
  IF bank = {} THEN {<<>>}
  ELSE IF profile = <<>>
  THEN {Recs("fallback", qs) :
          qs \in Samples(bank, Min(num_recommendations, Cardinality(bank)))}
  ELSE {SubSeq(full, 1, Min(num_recommendations, Len(full))) :
          full \in UNION {FillUp(recs, bank, num_recommendations) :
                            recs \in RuleBased(DictGet(profile[1], "accuracy", 0), bank)}}

\* the order in which groupby("topic") yields the topics, which is the
\* iteration order of a stored topic_mastery
TopicOrder == <<"algebra", "fractions", "geometry">>

\* dict.items() of a topic_mastery: <<topic, score>> in iteration order
Items(d) ==
  LET present == SelectSeq(TopicOrder, LAMBDA t : t \in DOMAIN d)
  IN  [i \in 1..Len(present) |-> <<present[i], d[present[i]]>>]

\* questions_df.groupby("topic")["difficulty"].mean() of a bank
MeanDifficulty(bank) ==
  IF bank = {} THEN [x \in {} |-> <<0, 1>>]
  ELSE [x \in Topics |-> CASE x = "fractions" -> <<1, 1>>
                           [] x = "algebra"   -> <<5, 2>>
                           [] OTHER           -> <<2, 1>>]

GetWeakTopics(student_id) ==
  /\ ret' = Call("get_weak_topics", student_id, <<>>, "ok", "return",
                 get_weak_topics(profiles, student_id), FALSE)
  /\ UNCHANGED <<profiles, file, logs, now, completed, updates, threads, session_state, finished, other_profiles>>

\* get_learning_plan on the student's rows of the log, or on the frame
\* without columns that an absent log gives
GetLearningPlan(student_id, logs_df, bank) ==
  /\ \E res \in get_learning_plan(student_id, logs_df, MeanDifficulty(bank)) :
       ret' = [op |-> "get_learning_plan", student_id |-> student_id, logs_df |-> logs_df,
               questions_df |-> bank, outcome |-> res.outcome, value |-> res.value]
  /\ UNCHANGED <<profiles, file, logs, now, completed, updates, threads, session_state, finished, other_profiles>>

\* the learning path of the results page: generate_learning_path on the
\* stored topic_mastery of a student who has a profile (app.py:318-342)
ShowLearningPath(student_id, bank) ==
  /\ student_id \in DOMAIN profiles
  /\ GenerateLearningPath(Items(profiles[student_id].topic_mastery), MeanDifficulty(bank), 60)

GetRecommendations(student_id, bank) ==
  /\ \E recs \in get_recommendations(student_id, get_profile(profiles, student_id), bank, 3) :
       ret' = Call("get_recommendations", student_id, <<>>, "ok", "return", recs, FALSE)
  /\ UNCHANGED <<profiles, file, logs, now, completed, updates, threads, session_state, finished, other_profiles>>

NextRead ==
  \/ \E s \in Students, a \in ShortAnswerDicts : UpdateProfile(s, a, "ok")
  \/ \E s \in Students : GetProfile(s)
  \/ \E s \in Students : GetWeakTopics(s)
  \/ \E s \in Students, bank \in QuestionBanks :
       \E df \in {<<>>, <<get_student_logs(logs, s)>>} : GetLearningPlan(s, df, bank)
  \/ \E s \in Students, bank \in QuestionBanks : ShowLearningPath(s, bank)
  \/ \E s \in Students, bank \in QuestionBanks : GetRecommendations(s, bank)

\* the profile store under its readers: updates that succeed, and every
\* operation that reads a profile
SpecRead == Init /\ [][NextRead]_vars

\* ---------------------------------------------------------------- statistics and mastery
\* attempt records of one student on the first four questions of the bank
StatRows == {LogRow("s1", q, a, <<"s1", 0>>) : q \in 1..4, a \in AnswerVals}

\* the record sets handed to compute_topic_stats: frames with the columns of
\* the log and up to MaxLog rows
RecordSets == UNION {[1..n -> StatRows] : n \in 0..MaxLog}

\* the stats of a topic: accuracy and engagement in [0, 1], avg_time >= 0
StatVals ==
  [accuracy : {<<0, 1>>, <<1, 2>>, <<1, 1>>},
   engagement : {<<0, 1>>, <<1, 2>>, <<1, 1>>},
   avg_time : {<<0, 1>>, <<617, 500>>, <<4, 1>>}]

\* topic_stats dicts of up to MaxTopics topics
TopicStatsDicts ==
  UNION {[T -> StatVals] : T \in {X \in SUBSET Topics : Cardinality(X) <= MaxTopics}}

ComputeTopicStats(logs_df) ==
  /\ ret' = [op |-> "compute_topic_stats", logs_df |-> logs_df, outcome |-> "return",
             value |-> compute_topic_stats(logs_df)]
  /\ UNCHANGED <<profiles, file, logs, now, completed, updates, threads, session_state, finished, other_profiles>>

ComputeTopicMastery(topic_stats) ==
  /\ \E m \in compute_topic_mastery(topic_stats) :
       ret' = [op |-> "compute_topic_mastery", topic_stats |-> topic_stats,
               outcome |-> "return", value |-> m]
  /\ UNCHANGED <<profiles, file, logs, now, completed, updates, threads, session_state, finished, other_profiles>>

\* a call of one of the two pure functions has been made
AfterPureCall == ret.op \in {"compute_topic_stats", "compute_topic_mastery"}

NextStats ==
  \/ Fresh /\ \E df \in RecordSets : ComputeTopicStats(df)
  \/ Fresh /\ \E ts \in TopicStatsDicts : ComputeTopicMastery(ts)
  \/ ~AfterPureCall /\ \E s \in Students, a \in LogAnswerDicts : LogAttempt(s, a)
  \/ ~AfterPureCall /\ \E s \in Students, a \in AnsweredDicts : UpdateProfile(s, a, "ok")

\* the aggregator and the scorer: a behaviour is one call of one of the two
\* pure functions with any input, or a run of the attempt log and the
\* profile store in which update_profile calls them
SpecStats == Init /\ [][NextStats]_vars

\* the frames handed to get_learning_plan as logs_df: the frame without
\* columns, and the frames with the columns of the log
PlanFrames == {<<>>} \cup {<<rows>> : rows \in RecordSets}

NextPlan ==
  Fresh /\ \E df \in PlanFrames, bank \in QuestionBanks : GetLearningPlan("s1", df, bank)

\* get_learning_plan reads nothing but its arguments: every behaviour is one
\* call of it, with any frame and bank
SpecPlan == Init /\ [][NextPlan]_vars

\* ---------------------------------------------------------------- QuizLogger
\* The rows of data/logs.csv are `logs`.  Of a row the model keeps the
\* columns the profile engine reads; in_memory_logs, which nothing reads, is
\* left out.

\* the ways log_attempt can fail: a question_id that `questions` does not
\* hold (the lookup of line 72 raises), the CSV that cannot be opened for
\* writing, and a write that stops after the file was opened
LogFailures == {"unknown_question", "open_fails", "write_fails"}

\* log_attempt on a path that raises: the except clause returns False
\* (lines 95-97); a write that stops after to_csv has opened the file leaves
\* it without the rows
LogAttemptFails(student_id, answers, how) ==
  /\ Len(answers) # 0
  /\ logs' = IF how = "write_fails" THEN <<>> ELSE logs
  /\ ret' = Call("log_attempt", student_id, answers, how, "return", <<FALSE>>, FALSE)
  /\ UNCHANGED <<profiles, file, now, completed, updates, threads, session_state, finished, other_profiles>>

GetStudentLogs(student_id) ==
  /\ ret' = Call("get_student_logs", student_id, <<>>, "ok", "return",
                 get_student_logs(logs, student_id), FALSE)
  /\ UNCHANGED <<profiles, file, logs, now, completed, updates, threads, session_state, finished, other_profiles>>

GetAllLogs ==
  /\ ret' = Call("get_all_logs", "s1", <<>>, "ok", "return", logs, FALSE)
  /\ UNCHANGED <<profiles, file, logs, now, completed, updates, threads, session_state, finished, other_profiles>>

\* get_session_summary: {} for a session without rows, else the counts over
\* the rows of the session
get_session_summary(rows, session_id) ==
  LET session_data == SelectSeq(rows, LAMBDA r : r.session_id = session_id)
  IN  IF session_data = <<>> THEN EmptyDict
      ELSE [student_id |-> session_data[1].student_id,
            total_questions |-> Len(session_data),
            correct_answers |-> Len(SelectSeq(session_data, LAMBDA r : r.correct)),
            questions_skipped |-> Len(SelectSeq(session_data, LAMBDA r : r.skipped))]

GetSessionSummary(session_id) ==
  /\ ret' = Call("get_session_summary", session_id[1], <<>>, "ok", "return",
                 get_session_summary(logs, session_id), FALSE)
  /\ UNCHANGED <<profiles, file, logs, now, completed, updates, threads, session_state, finished, other_profiles>>

\* get_student_performance_summary: the sessions are the groups of the
\* student's rows by session_id
get_student_performance_summary(rows, student_id) ==
  LET student_logs == get_student_logs(rows, student_id)
  IN  [total_sessions |->
         Cardinality({student_logs[i].session_id : i \in 1..Len(student_logs)}),
       total_questions |-> Len(student_logs)]

GetStudentPerformanceSummary(student_id) ==
  /\ ret' = Call("get_student_performance_summary", student_id, <<>>, "ok", "return",
                 get_student_performance_summary(logs, student_id), FALSE)
  /\ UNCHANGED <<profiles, file, logs, now, completed, updates, threads, session_state, finished, other_profiles>>

\* export_logs writes the rows to a file of its own and returns its path
ExportLogs ==
  /\ ret' = Call("export_logs", "s1", <<>>, "ok", "return", logs, FALSE)
  /\ UNCHANGED <<profiles, file, logs, now, completed, updates, threads, session_state, finished, other_profiles>>

\* clear_logs: nothing without confirm, else the file is rewritten with its
\* header only
ClearLogs(confirm) ==
  /\ logs' = IF confirm THEN <<>> ELSE logs
  /\ ret' = Call("clear_logs", "s1", <<>>, "ok", "return", <<confirm>>, FALSE)
  /\ UNCHANGED <<profiles, file, now, completed, updates, threads, session_state, finished, other_profiles>>

NextLogger ==
  \/ \E s \in Students, a \in LogAnswerDicts : LogAttempt(s, a)
  \/ \E s \in Students, a \in ShortAnswerDicts, how \in LogFailures : LogAttemptFails(s, a, how)
  \/ \E s \in Students : GetStudentLogs(s)
  \/ GetAllLogs
  \/ \E s \in Students, t \in 0..MaxTime : GetSessionSummary(<<s, t>>)
  \/ \E s \in Students : GetStudentPerformanceSummary(s)
  \/ ExportLogs
  \/ \E confirm \in BOOLEAN : ClearLogs(confirm)
  \/ Tick

\* the attempt log under every operation of QuizLogger, with the clock
SpecLogger == Init /\ [][NextLogger]_vars

\* ---------------------------------------------------------------- two instances
\* A second LearnerProfile object, of another process, on the same profile
\* file; other_profiles is its self.profiles.

\* LearnerProfile.__init__ of the second object
OtherInit ==
  /\ other_profiles' = _load_profiles(file)
  /\ ret' = NoCall("init")
  /\ UNCHANGED <<profiles, file, logs, now, completed, updates, threads,
                 session_state, finished>>

\* update_profile called on the second object
OtherUpdateProfile(student_id, quiz_answers) ==
  /\ Len(quiz_answers) # 0 => updates < MaxUpdates
  /\ \E res \in update_profile(other_profiles, file, logs, now, student_id, quiz_answers, "ok") :
       /\ other_profiles' = res.profiles
       /\ file' = res.file
       /\ ret' = Call("update_profile", student_id, quiz_answers, "ok", res.outcome,
                      res.value, FALSE)
       /\ completed' = [completed EXCEPT ![student_id] =
                          IF Len(quiz_answers) # 0 /\ res.outcome = "return"
                          THEN @ + 1 ELSE @]
  /\ updates' = IF Len(quiz_answers) # 0 THEN updates + 1 ELSE updates
  /\ UNCHANGED <<profiles, logs, now, threads, session_state, finished>>

NextTwo ==
  \/ \E s \in Students, a \in ShortAnswerDicts : UpdateProfile(s, a, "ok")
  \/ \E s \in Students, a \in ShortAnswerDicts : OtherUpdateProfile(s, a)
  \/ Restart
  \/ OtherInit
  \/ Tick

\* two LearnerProfile objects on one profile file, all writes succeeding
SpecTwo == Init /\ [][NextTwo]_vars

\* ---------------------------------------------------------------- sessions by their counts
\* a submission of c questions answered right, w answered wrong and s
\* skipped; accuracy and engagement depend on the counts only
Tally(c, w, s) ==
  [i \in 1..(c + w + s) |->
     IF i <= c THEN [correct |-> TRUE, skipped |-> FALSE, response_time |-> 1234]
     ELSE IF i <= c + w THEN [correct |-> FALSE, skipped |-> FALSE, response_time |-> 4000]
     ELSE [correct |-> FALSE, skipped |-> TRUE, response_time |-> 1234]]

\* the submissions of up to MaxTally questions; in each a skipped question
\* is not correct
TallyDicts ==
  {Tally(t[1], t[2], t[3]) :
     t \in {x \in (0..MaxTally) \X (0..MaxTally) \X (0..MaxTally) :
              x[1] + x[2] + x[3] \in 1..MaxTally}}

NextTally ==
  \/ \E a \in TallyDicts : UpdateProfile("s1", a, "ok")
  \/ \E s \in Students : GetProfile(s)

\* one student's profile under submissions of every mix of right, wrong and
\* skipped answers
SpecTally == Init /\ [][NextTally]_vars

\* ---------------------------------------------------------------- application flow
\* One browser session of app.py.  Every action is one run of the script,
\* from the interaction that starts it to the end of the page it renders.

\* the number of questions of a quiz (app.py:165 samples min(5, len) of them)
QuizLength == MaxQuestions

StudentOfSession == session_state.current_student[1]

\* "Take Another Quiz" (lines 388-396) and "Start Quiz" (125-131) reset the
\* same four fields
QuizReset(st) ==
  [st EXCEPT !.quiz_started = TRUE, !.quiz_completed = FALSE,
             !.current_question = 0, !.answers = <<>>]

\* the home page with a student selected in the selectbox (lines 117-121)
HomePage(student_id) ==
  /\ session_state' = [session_state EXCEPT !.current_student = <<student_id>>]
  /\ ret' = NoCall("home")
  /\ UNCHANGED <<profiles, file, logs, now, completed, updates, threads, finished, other_profiles>>

\* the home page with "Start Quiz" pressed
StartQuiz(student_id) ==
  /\ session_state' = QuizReset([session_state EXCEPT !.current_student = <<student_id>>])
  /\ ret' = NoCall("start_quiz")
  /\ UNCHANGED <<profiles, file, logs, now, completed, updates, threads, finished, other_profiles>>

\* the quiz page with "Skip Question" or "Submit Answer" pressed: the answer
\* is recorded and the script runs again; past the last question that run
\* marks the quiz completed and logs the attempt (lines 246-257)
AnswerQuestion(a) ==
  /\ session_state.current_student # <<>>
  /\ session_state.quiz_started
  /\ session_state.current_question < QuizLength
  /\ LET answers == Append(session_state.answers, a)
         current == session_state.current_question + 1
     IN  IF current < QuizLength
         THEN /\ session_state' = [session_state EXCEPT !.answers = answers,
                                                        !.current_question = current]
              /\ ret' = NoCall("quiz")
              /\ UNCHANGED <<profiles, file, logs, now, completed, updates, threads, finished, other_profiles>>
         ELSE /\ session_state' = [session_state EXCEPT !.answers = answers,
                                                        !.current_question = current,
                                                        !.quiz_completed = TRUE,
                                                        !.quiz_started = FALSE]
              /\ LogAttemptCall(StudentOfSession, answers)
              /\ finished' = [finished EXCEPT ![StudentOfSession] = @ + 1]

\* the quiz page with "Finish Quiz" pressed (lines 229-241)
FinishQuiz ==
  /\ session_state.current_student # <<>>
  /\ session_state.quiz_started
  /\ session_state.current_question < QuizLength
  /\ session_state' = [session_state EXCEPT !.quiz_completed = TRUE, !.quiz_started = FALSE]
  /\ LogAttemptCall(StudentOfSession, session_state.answers)
  /\ finished' = [finished EXCEPT ![StudentOfSession] =
                    IF session_state.answers # <<>> THEN @ + 1 ELSE @]

\* the results page of a completed quiz with answers: every run of it calls
\* update_profile (line 314) before it draws anything that depends on the
\* profile; with "Take Another Quiz" pressed the run ends by resetting the
\* session (lines 388-396)
ResultsPage(another) ==
  /\ session_state.current_student # <<>>
  /\ session_state.quiz_completed
  /\ session_state.answers # <<>>
  /\ UpdateProfileCall(StudentOfSession, session_state.answers, "ok")
  /\ session_state' = IF another THEN QuizReset(session_state) ELSE session_state
  /\ UNCHANGED finished

\* a run of the script that returns before any call: the quiz page without
\* a started quiz, the results page without a completed one, the dashboard
OtherPage ==
  /\ ret.op # "page"
  /\ ret' = NoCall("page")
  /\ UNCHANGED <<profiles, file, logs, now, completed, updates, threads,
                 session_state, finished, other_profiles>>

NextApp ==
  \/ \E s \in Students : HomePage(s)
  \/ \E s \in Students : StartQuiz(s)
  \/ \E a \in AnswerVals : AnswerQuestion(a)
  \/ FinishQuiz
  \/ \E another \in BOOLEAN : ResultsPage(another)
  \/ OtherPage
  \/ Tick

\* the application: one browser session on the cached LearnerProfile and
\* QuizLogger
SpecApp == Init /\ [][NextApp]_vars

\* ================================================================ properties
\* The session metrics and the mastery score as the specification states
\* them, computed from counts, independently of the operators above.
Abs(x) == IF x < 0 THEN -x ELSE x

NumCorrect(a) == Cardinality({q \in DOMAIN a : a[q].correct})

NumSkipped(a) == Cardinality({q \in DOMAIN a : a[q].skipped})

RECURSIVE TimeOver(_, _)
TimeOver(a, S) ==
  IF S = {} THEN 0
  ELSE LET q == CHOOSE x \in S : TRUE IN a[q].response_time + TimeOver(a, S \ {q})

TotalTime(a) == TimeOver(a, DOMAIN a)

ReturnFields == {"accuracy", "pace", "engagement", "topic_mastery"}

StoredFields == ReturnFields \cup {"quiz_count", "last_updated"}

\* the state was produced by update_profile with a non-empty submission
AfterNonEmptyUpdate == ret.op = "update_profile" /\ Len(ret.quiz_answers) # 0

QuizCount(profs, s) == IF s \in DOMAIN profs THEN profs[s].quiz_count ELSE 0

\* ---------------------------------------------------------------- C1
\* C1: update_profile(student_id, {}) changes neither the in-memory nor the
\* persisted profile store, and returns the stored profile of the student if
\* there is one, otherwise the zero-valued profile with the four fields
\* accuracy, pace, engagement, topic_mastery.
C1_EmptyUpdateIsNoOp ==
  [][(ret'.op = "update_profile" /\ Len(ret'.quiz_answers) = 0) =>
       /\ profiles' = profiles
       /\ file' = file
       /\ ret'.outcome = "return"
       /\ ret'.value = (IF ret'.student_id \in DOMAIN profiles
                        THEN <<profiles[ret'.student_id]>>
                        ELSE <<[accuracy |-> 0, pace |-> 0, engagement |-> 0,
                                topic_mastery |-> EmptyDict]>>)]_vars

\* an empty submission of a student with a profile, made after the clock
\* has moved on from the last update
C1_Witness ==
  /\ ret.op = "update_profile"
  /\ Len(ret.quiz_answers) = 0
  /\ ret.student_id \in DOMAIN profiles
  /\ ret.value = <<profiles[ret.student_id]>>
  /\ profiles[ret.student_id].last_updated < now

\* ---------------------------------------------------------------- C2
\* C2: every call of update_profile that returns hands back a record with
\* exactly the fields accuracy, pace, engagement, topic_mastery.
C2_ReturnHasFourFields ==
  (ret.op = "update_profile" /\ ret.outcome = "return") =>
     (Len(ret.value) = 1 /\ DOMAIN ret.value[1] = ReturnFields)

\* ---------------------------------------------------------------- C3
\* C3 as stated: after the first non-empty update of a student the stored
\* accuracy, pace and engagement equal the session metrics exactly.
C3_FirstQuizEqualsSessionExactly ==
  (AfterNonEmptyUpdate /\ profiles[ret.student_id].quiz_count = 1) =>
     LET a == ret.quiz_answers
         n == Len(a)
         p == profiles[ret.student_id]
     IN  /\ p.accuracy * n = 1000 * NumCorrect(a)
         /\ p.pace * 10 * n = TotalTime(a)
         /\ p.engagement * n = 1000 * (n - NumSkipped(a))

\* C3 amended: after the first non-empty update of a student the stored
\* accuracy and engagement are the session metrics rounded to 3 decimals and
\* the stored pace is the session pace rounded to 2 decimals (weight 1.0, no
\* share of the zero defaults).
C3_FirstQuizEqualsSessionRounded ==
  (AfterNonEmptyUpdate /\ profiles[ret.student_id].quiz_count = 1) =>
     LET a == ret.quiz_answers
         n == Len(a)
         p == profiles[ret.student_id]
     IN  /\ 2 * Abs(p.accuracy * n - 1000 * NumCorrect(a)) <= n
         /\ 2 * Abs(p.pace * 10 * n - TotalTime(a)) <= 10 * n
         /\ 2 * Abs(p.engagement * n - 1000 * (n - NumSkipped(a))) <= n

\* a first quiz whose mean response time has more than two decimals
C3_Witness ==
  /\ AfterNonEmptyUpdate
  /\ profiles[ret.student_id].quiz_count = 1
  /\ profiles[ret.student_id].pace * 10 * Len(ret.quiz_answers) # TotalTime(ret.quiz_answers)
  /\ NumCorrect(ret.quiz_answers) > 0

\* ---------------------------------------------------------------- C4
\* C4: a non-empty update of a student with quiz_count >= 1 stores
\* 0.3 * old + 0.7 * current for accuracy, pace and engagement, rounded to
\* 3, 2 and 3 decimals: the stored value is within half a unit of the last
\* kept decimal of that blend.
C4_BlendWithinRounding ==
  [][(/\ ret'.op = "update_profile"
      /\ Len(ret'.quiz_answers) # 0
      /\ QuizCount(profiles, ret'.student_id) >= 1) =>
       LET a   == ret'.quiz_answers
           n   == Len(a)
           old == profiles[ret'.student_id]
           new == profiles'[ret'.student_id]
       IN  /\ 2 * Abs(new.accuracy * 10 * n
                      - (3 * old.accuracy * n + 7000 * NumCorrect(a))) <= 10 * n
           /\ 2 * Abs(new.pace * 100 * n
                      - (30 * old.pace * n + 7 * TotalTime(a))) <= 100 * n
           /\ 2 * Abs(new.engagement * 10 * n
                      - (3 * old.engagement * n + 7000 * (n - NumSkipped(a)))) <= 10 * n]_vars

\* a second quiz whose result differs from the stored accuracy, so that the
\* new value is neither the session's nor the old one
C4_Witness ==
  /\ AfterNonEmptyUpdate
  /\ profiles[ret.student_id].quiz_count = 2
  /\ LET a == ret.quiz_answers
         p == profiles[ret.student_id]
     IN  /\ p.accuracy * Len(a) # 1000 * NumCorrect(a)
         /\ p.accuracy \notin {0, 1000}
         /\ p.engagement \notin {0, 1000}

\* ---------------------------------------------------------------- C5
\* C5: the stored quiz_count of every student equals the number of that
\* student's non-empty update_profile calls that completed.
C5_QuizCountIsCompletedUpdates ==
  \A s \in Students : QuizCount(profiles, s) = completed[s]

\* ---------------------------------------------------------------- C6
\* C6: update_profile is not idempotent: a completed non-empty call that
\* repeats the completed call before it (same student, same answers) changes
\* the in-memory and the persisted store again, raising quiz_count by 1.
C6_RepeatedUpdateChangesStore ==
  [][(/\ ret'.op = "update_profile"
      /\ ret'.repeat
      /\ Len(ret'.quiz_answers) # 0
      /\ ret'.outcome = "return") =>
       /\ profiles' # profiles
       /\ file' # file
       /\ QuizCount(profiles', ret'.student_id) = QuizCount(profiles, ret'.student_id) + 1]_vars

\* the same non-empty submission made twice in a row, both calls completing
C6_Witness ==
  /\ AfterNonEmptyUpdate
  /\ ret.repeat
  /\ ret.outcome = "return"
  /\ profiles[ret.student_id].quiz_count = 2

\* ---------------------------------------------------------------- C7
\* the rows of a student in a topic, as positions of the log
TopicRows(s, topic) ==
  {i \in 1..Len(logs) : logs[i].student_id = s /\ logs[i].topic = topic}

RECURSIVE RowTime(_)
RowTime(S) ==
  IF S = {} THEN 0
  ELSE LET i == CHOOSE x \in S : TRUE IN logs[i].response_time + RowTime(S \ {i})

\* v is round(0.5 * accuracy + 0.3 / (1 + avg_time) + 0.2 * engagement, 3) of
\* the rows R, in thousandths
IsMasteryOf(v, R) ==
  LET n == Cardinality(R)
      c == Cardinality({i \in R : logs[i].correct})
      k == Cardinality({i \in R : logs[i].skipped})
      d == 1000 * n + RowTime(R)
  IN  2 * Abs(v * n * d - (500 * c * d + 300000 * n * n + 200 * (n - k) * d)) <= n * d

\* C7: the topic_mastery stored and returned by a non-empty update_profile
\* has one score for each topic in which the student has log rows (none when
\* the student has no rows), and each score is the mastery formula applied to
\* all rows of that student in that topic, whatever the submission, the
\* previous topic_mastery and quiz_count are.
C7_MasteryFromFullHistory ==
  AfterNonEmptyUpdate =>
     LET s  == ret.student_id
         tm == profiles[s].topic_mastery
     IN  /\ DOMAIN tm = {logs[i].topic : i \in {j \in 1..Len(logs) : logs[j].student_id = s}}
         /\ \A topic \in DOMAIN tm : IsMasteryOf(tm[topic], TopicRows(s, topic))
         /\ ret.outcome = "return" => ret.value[1].topic_mastery = tm

\* a second update of a student who has log rows, while the log also holds
\* rows of another student
C7_Witness ==
  /\ AfterNonEmptyUpdate
  /\ profiles[ret.student_id].quiz_count = 2
  /\ profiles[ret.student_id].topic_mastery # EmptyDict
  /\ \E i \in 1..Len(logs) : logs[i].student_id # ret.student_id
  /\ \E i \in 1..Len(logs) : logs[i].student_id = ret.student_id

\* ---------------------------------------------------------------- C8
\* C8: when update_profile with a non-empty submission has returned, the
\* profile file holds the student's full record, and its accuracy, pace,
\* engagement and topic_mastery are the values returned and the values
\* get_profile gives, now and after a reload of the file.
C8_SavedBeforeReturn ==
  (AfterNonEmptyUpdate /\ ret.outcome = "return") =>
     LET s == ret.student_id
     IN  /\ file.status = "ok"
         /\ s \in DOMAIN file.data
         /\ DOMAIN file.data[s] = StoredFields
         /\ Len(ret.value) = 1
         /\ \A fld \in ReturnFields : file.data[s][fld] = ret.value[1][fld]
         /\ get_profile(profiles, s) = <<file.data[s]>>
         /\ get_profile(_load_profiles(file), s) = <<file.data[s]>>

\* a completed second update of a student
C8_Witness ==
  /\ AfterNonEmptyUpdate
  /\ ret.outcome = "return"
  /\ file.status = "ok"
  /\ ret.student_id \in DOMAIN file.data
  /\ file.data[ret.student_id].quiz_count = 2

\* ---------------------------------------------------------------- C9
\* C9: when the write of the profile file fails during update_profile, the
\* call ends with an exception and returns no value.
C9_WriteFailureRaises ==
  (AfterNonEmptyUpdate /\ ret.write # "ok") =>
     (ret.outcome = "raise" /\ ret.value = <<>>)

\* an update whose write failed after the file had been opened for writing
C9_Witness ==
  /\ AfterNonEmptyUpdate
  /\ ret.write = "dump_fails"
  /\ ret.outcome = "raise"
  /\ file.status = "corrupt"

\* ---------------------------------------------------------------- C10
\* C10: concurrent updates of one student never lose an update: whenever no
\* call is in progress, the stored quiz_count of every student is the number
\* of update calls that completed for that student.
C10_NoUpdateDropped ==
  (\A t \in Threads : threads[t].pc = "idle") =>
     \A s \in Students : QuizCount(profiles, s) = completed[s]

C12_OnlyNonEmptyUpdateChangesStore ==
  [][/\ (profiles' # profiles \/ file' # file) =>
          (ret'.op = "update_profile" /\ Len(ret'.quiz_answers) # 0)
     /\ ret'.op \in {"get_profile", "get_weak_topics", "get_learning_plan",
                     "generate_learning_path", "get_recommendations"} =>
          (profiles' = profiles /\ file' = file)
     /\ (ret'.op = "get_profile" /\ ret'.student_id \notin DOMAIN profiles) =>
          (ret'.value = <<>> /\ ret'.student_id \notin DOMAIN profiles')]_vars

\* get_profile of a student without a profile, asked while the store holds
\* the profile of another student
C12_Witness ==
  /\ ret.op = "get_profile"
  /\ ret.value = <<>>
  /\ ret.student_id \notin DOMAIN profiles
  /\ profiles # EmptyDict
  /\ file.status = "ok"

\* ================================================================ path generator
\* the call whose result the state holds
AfterPath == ret.op = "generate_learning_path"

\* the positions of the steps of a type in a returned path
StepsOfType(path, type) ==
  {i \in 1..Len(path) : "type" \in DOMAIN path[i] /\ path[i].type = type}

\* the score of a topic in a topic_mastery dict
ScoreOf(tm, topic) == tm[CHOOSE i \in 1..Len(tm) : tm[i][1] = topic][2]

\* the position of the study step of a topic in a path
StudyAt(path, topic) ==
  CHOOSE i \in StepsOfType(path, "study") : path[i].topic = topic

\* ---------------------------------------------------------------- C13
\* C13: for an empty topic_mastery and any daily_time the path is exactly
\* one step, the "General Review" step, whose time_minutes is the whole
\* daily_time and which has the two fixed activities; it holds no study and
\* no revision step.
C13_EmptyMasteryGivesGeneralReview ==
  (AfterPath /\ ret.topic_mastery = <<>>) =>
     /\ ret.outcome = "return"
     /\ Len(ret.value) = 1
     /\ ret.value[1].topic = "General Review"
     /\ ret.value[1].time_minutes = ret.daily_time
     /\ ret.value[1].activities = <<"Light revision", "Practice questions">>
     /\ StepsOfType(ret.value, "study") = {}
     /\ StepsOfType(ret.value, "revision") = {}

\* the cold start with a budget other than the default hour
C13_Witness ==
  /\ AfterPath
  /\ ret.topic_mastery = <<>>
  /\ ret.daily_time = 45
  /\ ret.outcome = "return"
  /\ ret.value[1].time_minutes = 45

\* ---------------------------------------------------------------- C14
\* C14: for a non-empty topic_mastery the path has exactly one study step
\* for each topic of the mapping and none for any other, the study steps
\* stand in ascending order of mastery score, and topics with equal scores
\* keep the order in which the mapping iterates them.
C14_StudyStepsAscendingStable ==
  (AfterPath /\ ret.topic_mastery # <<>>) =>
     LET tm   == ret.topic_mastery
         path == ret.value
         S    == StepsOfType(path, "study")
     IN  /\ ret.outcome = "return"
         /\ \A k \in 1..Len(tm) :
              Cardinality({i \in S : path[i].topic = tm[k][1]}) = 1
         /\ \A i \in S : \E k \in 1..Len(tm) :
              path[i].topic = tm[k][1] /\ path[i].mastery_score = tm[k][2]
         /\ \A i, j \in S : i < j => path[i].mastery_score <= path[j].mastery_score
         /\ \A a, b \in 1..Len(tm) :
              (a < b /\ tm[a][2] = tm[b][2]) =>
                 StudyAt(path, tm[a][1]) < StudyAt(path, tm[b][1])

\* two topics with the same score, each with a revision step
C14_Witness ==
  /\ AfterPath
  /\ ret.outcome = "return"
  /\ Len(ret.topic_mastery) = 2
  /\ ret.topic_mastery[1][2] = ret.topic_mastery[2][2]
  /\ Len(ret.value) = 4
  /\ ret.value[1].topic = ret.topic_mastery[1][1]

\* ---------------------------------------------------------------- C15
\* the sum of 1 - score over the first n topics, in thousandths
RECURSIVE InverseSum(_, _)
InverseSum(tm, n) == IF n = 0 THEN 0 ELSE InverseSum(tm, n - 1) + (1000 - tm[n][2])

\* the divisor of the shares, in thousandths: the sum, or the topic count
\* when the sum is zero
InverseTotal(tm) ==
  IF InverseSum(tm, Len(tm)) > 0 THEN InverseSum(tm, Len(tm)) ELSE 1000 * Len(tm)

\* t is max(10, round(share * daily_time)) for the share (1 - score) / total
IsAllocation(t, score, total, daily_time) ==
  LET x == (1000 - score) * daily_time
  IN  \/ t > 10 /\ 2 * Abs(t * total - x) <= total
      \/ t = 10 /\ 2 * x <= 21 * total

\* the minutes of all study steps of a path
RECURSIVE StudyMinutes(_, _)
StudyMinutes(path, n) ==
  IF n = 0 THEN 0
  ELSE StudyMinutes(path, n - 1)
       + (IF n \in StepsOfType(path, "study") THEN path[n].time_minutes ELSE 0)

\* C15: for a non-empty topic_mastery with scores in [0, 1], the
\* time_minutes of each study step is
\* max(10, round(((1 - mastery_i) / total_inverse) * daily_time)), so it is
\* at least 10, a topic of mastery 1.0 included, and whatever the sum of the
\* study minutes is against daily_time.
C15_StudyMinutesFloorTen ==
  (AfterPath /\ ret.topic_mastery # <<>> /\ ret.outcome = "return") =>
     LET tm   == ret.topic_mastery
         path == ret.value
     IN  \A i \in StepsOfType(path, "study") :
           /\ path[i].time_minutes >= 10
           /\ IsAllocation(path[i].time_minutes, ScoreOf(tm, path[i].topic),
                           InverseTotal(tm), ret.daily_time)

\* a fully mastered topic next to a weak one, the floor of ten minutes
\* taking the plan over the budget
C15_Witness ==
  /\ AfterPath
  /\ ret.outcome = "return"
  /\ Len(ret.topic_mastery) = 2
  /\ \E i \in StepsOfType(ret.value, "study") :
       ret.value[i].mastery_score = 1000 /\ ret.value[i].time_minutes = 10
  /\ \E i \in StepsOfType(ret.value, "study") : ret.value[i].time_minutes > 10
  /\ StudyMinutes(ret.value, Len(ret.value)) > ret.daily_time

\* ---------------------------------------------------------------- C16
\* C16: the path has a revision step for a topic exactly when the topic's
\* score is below 0.5 (none at 0.5 itself); then it has one only, placed
\* right after the topic's study step, with time_minutes 10 and the focus
\* "Concept reinforcement + recall".
C16_RevisionIffBelowHalf ==
  (AfterPath /\ ret.topic_mastery # <<>> /\ ret.outcome = "return") =>
     LET tm   == ret.topic_mastery
         path == ret.value
     IN  /\ \A k \in 1..Len(tm) :
              LET R == {i \in StepsOfType(path, "revision") : path[i].topic = tm[k][1]}
              IN  /\ (tm[k][2] < 500) <=> (R # {})
                  /\ R # {} =>
                       /\ R = {StudyAt(path, tm[k][1]) + 1}
                       /\ \A i \in R :
                            /\ path[i].time_minutes = 10
                            /\ path[i].focus = "Concept reinforcement + recall"
         /\ \A i \in StepsOfType(path, "revision") :
              \E k \in 1..Len(tm) : path[i].topic = tm[k][1]

\* one topic just below the threshold and one on it
C16_Witness ==
  /\ AfterPath
  /\ ret.outcome = "return"
  /\ Len(ret.topic_mastery) = 2
  /\ ret.topic_mastery[1][2] = 500
  /\ ret.topic_mastery[2][2] = 499
  /\ Len(ret.value) = 3
  /\ ret.value[2].type = "revision"

\* ---------------------------------------------------------------- C17
\* C17: of two topics of one call the one with the lower mastery has its
\* study step earlier and never fewer minutes; for {fractions: 0.3,
\* algebra: 0.8} and daily_time 60 the path is fractions-study,
\* fractions-revision, algebra-study, with more minutes for fractions than
\* for algebra.
C17_WeakerTopicFirstAndLonger ==
  (AfterPath /\ ret.topic_mastery # <<>> /\ ret.outcome = "return") =>
     LET tm   == ret.topic_mastery
         path == ret.value
     IN  /\ \A a, b \in 1..Len(tm) :
              tm[a][2] < tm[b][2] =>
                 /\ StudyAt(path, tm[a][1]) < StudyAt(path, tm[b][1])
                 /\ path[StudyAt(path, tm[a][1])].time_minutes
                      >= path[StudyAt(path, tm[b][1])].time_minutes
         /\ (tm = << <<"fractions", 300>>, <<"algebra", 800>> >> /\ ret.daily_time = 60) =>
              /\ Len(path) = 3
              /\ path[1].type = "study" /\ path[1].topic = "fractions"
              /\ path[2].type = "revision" /\ path[2].topic = "fractions"
              /\ path[3].type = "study" /\ path[3].topic = "algebra"
              /\ path[1].time_minutes > path[3].time_minutes

\* the scenario: 47 minutes for fractions, 13 for algebra
C17_Witness ==
  /\ AfterPath
  /\ ret.outcome = "return"
  /\ ret.topic_mastery = << <<"fractions", 300>>, <<"algebra", 800>> >>
  /\ ret.daily_time = 60
  /\ ret.value[1].time_minutes = 47
  /\ ret.value[3].time_minutes = 13

\* ---------------------------------------------------------------- C18
\* C18: when every topic of a non-empty topic_mastery has mastery 1.0 the
\* call does not fail on a division by zero: the shares are taken over the
\* topic count, and the path returned is not empty, holds one study step
\* for every topic and nothing else, and gives every topic the same number
\* of minutes.
C18_AllMasteredSplitsEvenly ==
  (/\ AfterPath
   /\ ret.topic_mastery # <<>>
   /\ \A k \in 1..Len(ret.topic_mastery) : ret.topic_mastery[k][2] = 1000) =>
     LET tm   == ret.topic_mastery
         path == ret.value
     IN  /\ ret.outcome = "return"
         /\ path # <<>>
         /\ Len(path) = Len(tm)
         /\ StepsOfType(path, "study") = 1..Len(path)
         /\ \A k \in 1..Len(tm) : \E i \in 1..Len(path) : path[i].topic = tm[k][1]
         /\ \A i, j \in 1..Len(path) : path[i].time_minutes = path[j].time_minutes
         /\ \A i \in 1..Len(path) :
              IsAllocation(path[i].time_minutes, 1000, 1000 * Len(tm), ret.daily_time)

\* two fully mastered topics and an hour to spend
C18_Witness ==
  /\ AfterPath
  /\ ret.outcome = "return"
  /\ Len(ret.topic_mastery) = 2
  /\ \A k \in 1..2 : ret.topic_mastery[k][2] = 1000
  /\ ret.daily_time = 60
  /\ Len(ret.value) = 2
  /\ ret.value[1].time_minutes = ret.value[2].time_minutes

\* ---------------------------------------------------------------- C19
\* C19: every step of every returned path, for an empty and for a non-empty
\* topic_mastery, carries a type field whose value is "study" or
\* "revision".
C19_EveryStepHasType ==
  (AfterPath /\ ret.outcome = "return") =>
     \A i \in 1..Len(ret.value) :
        /\ "type" \in DOMAIN ret.value[i]
        /\ ret.value[i].type \in {"study", "revision"}

\* ---------------------------------------------------------------- C20
\* the label the thresholds 0.4 and 0.7 give a score
LabelOf(score) ==
  IF score < 400 THEN "Not Mastered"
  ELSE IF score < 700 THEN "Partially Mastered"
  ELSE "Mastered"

\* the activity list of a label
ActivitiesOf(label) ==
  CASE label = "Not Mastered"       -> <<"Concept review", "Worked examples", "Easy practice">>
    [] label = "Partially Mastered" -> <<"Mixed practice", "Timed questions">>
    [] OTHER                        -> <<"Challenge problems", "Peer explanation">>

\* C20: a score below 0.4 is "Not Mastered", one from 0.4 to below 0.7
\* "Partially Mastered", one from 0.7 on "Mastered"; classify_mastery and
\* mastery_level give this label and so the same label for every score, 0.4
\* and 0.7 included; the level and the activities of every study step are
\* those of the label of its topic's score.
C20_LevelsAgree ==
  /\ ret.op \in {"mastery_level", "classify_mastery"} =>
       /\ ret.value = LabelOf(ret.score)
       /\ mastery_level(ret.score) = classify_mastery(ret.score)
  /\ (AfterPath /\ ret.topic_mastery # <<>> /\ ret.outcome = "return") =>
       \A i \in StepsOfType(ret.value, "study") :
          /\ ret.value[i].level = LabelOf(ScoreOf(ret.topic_mastery, ret.value[i].topic))
          /\ ret.value[i].activities = ActivitiesOf(ret.value[i].level)

\* mastery_level asked for the score 0.4 itself
C20_Witness ==
  /\ ret.op = "mastery_level"
  /\ ret.score = 400
  /\ ret.value = "Partially Mastered"

\* ================================================================ statistics and mastery
\* the rational x is num / den
IsRatio(x, num, den) == x[1] * den = num * x[2]

\* the positions of the rows of a topic in a record set
RowsOf(df, topic) == {i \in 1..Len(df) : df[i].topic = topic}

RECURSIVE TimeOfRows(_, _)
TimeOfRows(df, S) ==
  IF S = {} THEN 0
  ELSE LET i == CHOOSE x \in S : TRUE IN df[i].response_time + TimeOfRows(df, S \ {i})

IsMasteryOfStats(v, st) ==
  LET an == st.accuracy[1]
      ad == st.accuracy[2]
      en == st.engagement[1]
      ed == st.engagement[2]
      tn == st.avg_time[1]
      td == st.avg_time[2]
      D  == ad * ed * (td + tn)
  IN  2 * Abs(v * D - (500 * an * ed * (td + tn) + 300 * td * ad * ed
                       + 200 * en * ad * (td + tn))) <= D

\* C22: for stats with accuracy and engagement in [0, 1] and avg_time >= 0,
\* compute_topic_mastery gives every topic round(0.5 * accuracy +
\* 0.3 * (1 / (1 + avg_time)) + 0.2 * engagement, 3); the score lies in
\* [0, 1] and is exactly 1.0 for accuracy 1, avg_time 0, engagement 1; every
\* topic_mastery value that update_profile stores lies in [0, 1].
C22_MasteryFormulaInUnitRange ==
  /\ ret.op = "compute_topic_mastery" =>
       /\ ret.outcome = "return"
       /\ DOMAIN ret.value = DOMAIN ret.topic_stats
       /\ \A topic \in DOMAIN ret.value :
            /\ IsMasteryOfStats(ret.value[topic], ret.topic_stats[topic])
            /\ ret.value[topic] >= 0
            /\ ret.value[topic] <= 1000
            /\ ret.topic_stats[topic] = [accuracy |-> <<1, 1>>, engagement |-> <<1, 1>>,
                                         avg_time |-> <<0, 1>>]
                 => ret.value[topic] = 1000
  /\ \A s \in DOMAIN profiles : \A topic \in DOMAIN profiles[s].topic_mastery :
       /\ profiles[s].topic_mastery[topic] >= 0
       /\ profiles[s].topic_mastery[topic] <= 1000

\* the best stats a topic can have, next to a topic that was only skipped
C22_Witness ==
  /\ ret.op = "compute_topic_mastery"
  /\ \E t1, t2 \in DOMAIN ret.value :
       /\ ret.topic_stats[t1] = [accuracy |-> <<1, 1>>, engagement |-> <<1, 1>>,
                                 avg_time |-> <<0, 1>>]
       /\ ret.value[t1] = 1000
       /\ ret.topic_stats[t2].engagement = <<0, 1>>
       /\ ret.value[t2] < 300

\* ================================================================ profile invariants
\* ---------------------------------------------------------------- C23
\* C23: after any sequence of update_profile calls with response times >= 0
\* every profile in the store, and every profile in the file, has accuracy
\* and engagement in [0, 1], pace >= 0 and a quiz_count that is a natural
\* number.
C23_ProfileFiguresInRange ==
  \A store \in {profiles, file.data} : \A s \in DOMAIN store :
     /\ store[s].accuracy >= 0
     /\ store[s].accuracy <= 1000
     /\ store[s].engagement >= 0
     /\ store[s].engagement <= 1000
     /\ store[s].pace >= 0
     /\ store[s].quiz_count \in Nat

\* a second quiz as good as the first: accuracy and engagement stay at 1.0
C23_Witness ==
  /\ AfterNonEmptyUpdate
  /\ profiles[ret.student_id].quiz_count = 2
  /\ profiles[ret.student_id].accuracy = 1000
  /\ profiles[ret.student_id].engagement = 1000
  /\ profiles[ret.student_id].pace > 0

\* ---------------------------------------------------------------- C24
\* C24: the attempt log is append-only and its records are immutable: every
\* step of a QuizLogger operation keeps each row that was in the log, at its
\* place and with its values, and a log_attempt that returns True adds one
\* row per answer after the existing ones.
C24_LogAppendOnly ==
  [][/\ \A i \in 1..Len(logs) : i <= Len(logs') /\ logs'[i] = logs[i]
     /\ (ret'.op = "log_attempt" /\ ret'.write = "ok") =>
          /\ Len(logs') = Len(logs) + Len(ret'.quiz_answers)
          /\ \A q \in 1..Len(ret'.quiz_answers) :
               /\ logs'[Len(logs) + q].student_id = ret'.student_id
               /\ logs'[Len(logs) + q].question_id = q]_vars

\* ---------------------------------------------------------------- C25
\* C25: a log_attempt call for a student never gives its rows a session_id
\* that rows of an earlier call for that student already carry.
C25_SessionIdUniquePerCall ==
  [][(ret'.op = "log_attempt" /\ ret'.write = "ok" /\ Len(ret'.quiz_answers) # 0) =>
       \A i \in 1..Len(logs) :
         logs[i].student_id = ret'.student_id =>
           logs[i].session_id # logs'[Len(logs')].session_id]_vars


\* ---------------------------------------------------------------- C26
\* C26: get_learning_plan on a frame of log records returns the path that
\* generate_learning_path gives for the mastery of the topic statistics of
\* the frame, the mean difficulty per topic and 60 minutes, so the path has
\* one study step per topic of the frame.
C26_PlanFollowsDataFlow ==
  (ret.op = "get_learning_plan" /\ ret.logs_df # <<>>) =>
     LET rows == ret.logs_df[1]
     IN  /\ \E m \in compute_topic_mastery(compute_topic_stats(rows)) :
              [outcome |-> ret.outcome, value |-> ret.value] \in
                 generate_learning_path(Items(m), MeanDifficulty(ret.questions_df), 60)
         /\ rows # <<>> =>
              /\ ret.outcome = "return"
              /\ \A t \in {rows[i].topic : i \in 1..Len(rows)} :
                   Cardinality({i \in StepsOfType(ret.value, "study") :
                                  ret.value[i].topic = t}) = 1


\* ---------------------------------------------------------------- C27
\* C27: in the application flow a completed quiz session is blended into the
\* profile once: the stored quiz_count of a student never exceeds the number
\* of that student's completed quiz sessions with at least one answer.
C27_OneUpdatePerSession ==
  \A s \in Students : QuizCount(profiles, s) <= finished[s]


\* ---------------------------------------------------------------- C28
\* C28: with submissions in which a skipped question is never correct, the
\* stored accuracy of every profile is at most its stored engagement.
C28_AccuracyAtMostEngagement ==
  \A p \in {profiles, file.data} : \A s \in DOMAIN p :
     p[s].accuracy <= p[s].engagement


\* ---------------------------------------------------------------- C29
\* C29: an update_profile call whose write of the profile file fails leaves
\* the in-memory store as it was before the call.
C29_FailedWriteLeavesMemory ==
  [][(ret'.op = "update_profile" /\ ret'.write # "ok") => profiles' = profiles]_vars


\* ---------------------------------------------------------------- C30
\* C30: an update_profile call for one student, on either LearnerProfile
\* object, leaves the persisted record of every other student in the file,
\* unchanged.
C30_OtherRecordsKept ==
  [][(ret'.op = "update_profile" /\ Len(ret'.quiz_answers) # 0) =>
       \A s \in DOMAIN file.data :
          s # ret'.student_id => (s \in DOMAIN file'.data /\ file'.data[s] = file.data[s])]_vars

====
